---- MODULE Spec2Model ----
(***************************************************************************)
(* Pokemon Crystal save editor: the save buffer, the pocket and party      *)
(* edits of pokemon_crystal_editor.py, its checksum update and write, and  *)
(* the stand-alone add_masterballs.py script.                              *)
(*                                                                         *)
(* The buffer is a Python bytearray of `len` bytes.  It is kept sparse: a  *)
(* function from the offsets that hold a non-zero byte to that byte; every *)
(* other offset below `len` holds 0.  An access at an offset >= len raises *)
(* IndexError, a store of a value outside 0..255 raises ValueError (the    *)
(* value is checked before the index, as CPython 3.11 does).               *)
(***************************************************************************)
EXTENDS Integers, Sequences, FiniteSets, TLC

VARIABLES data, len, pc, edits, stage, last, file

vars == <<data, len, pc, edits, stage, last, file>>

\* ------------------------------------------------------------------ bounds
\* Calls of the editor's functions in one run of SpecPocket or SpecParty.
MaxEdits == 2
\* Edit flags on one command line of the editor (Spec).
MaxFlags == 2

\* ------------------------------------------------------- layout constants
SAVE_SIZE == 32768
BANK1_OFFSET == 3584
CHECKSUM_OFFSET == 11625
CHECKSUM_DATA_START == 8201
CHECKSUM_DATA_END == 11624
CHECKSUM_OFFSET_BANK1 == 7949
CHECKSUM_DATA_START_BANK1 == 4617
CHECKSUM_DATA_END_BANK1 == 7554
MONEY_OFFSET == 9180
PARTY_COUNT_OFFSET == 10341
PARTY_SPECIES_OFFSET == 10342
PARTY_DATA_OFFSET == 10349
PARTY_POKEMON_SIZE == 48
PKMN_SPECIES == 0
PKMN_ITEM == 1
PKMN_MOVE1 == 2
PKMN_MOVE2 == 3
PKMN_MOVE3 == 4
PKMN_MOVE4 == 5
PKMN_HP_EV == 11
PKMN_ATK_EV == 13
PKMN_DEF_EV == 15
PKMN_SPD_EV == 17
PKMN_SPC_EV == 19
PKMN_DVS == 21
PKMN_PP1 == 23
PKMN_PP2 == 24
PKMN_PP3 == 25
PKMN_PP4 == 26
PKMN_FRIENDSHIP == 27
PKMN_LEVEL == 31
PKMN_STATUS == 32
PKMN_HP_CURRENT == 34
PKMN_HP_MAX == 36
SUICUNE_ID == 245
MASTER_BALL_ID == 1
RARE_CANDY_ID == 8

PocketNames == {"items", "balls"}

\* Bank 2 (primary) pockets.
POCKETS ==
  [items |-> [count |-> 9242, data |-> 9243, max_slots |-> 20],
   balls |-> [count |-> 9317, data |-> 9318, max_slots |-> 12]]

\* Bank 1 (backup) pockets.
POCKETS_BANK1 ==
  [items |-> [count |-> 5658, data |-> 5659, max_slots |-> 20],
   balls |-> [count |-> 5733, data |-> 5734, max_slots |-> 12]]

\* add_masterballs.py keeps its own copy of the bank-2 ball pocket layout.
BALL_POCKET_COUNT_OFFSET == 9317
BALL_POCKET_DATA_OFFSET == 9318
MAX_BALL_POCKET_SIZE == 12

PocketOf(bank, pocket_name) ==
  IF bank = 1 THEN POCKETS_BANK1[pocket_name] ELSE POCKETS[pocket_name]

\* ------------------------------------------------------------ the bytearray
Min(a, b) == IF a < b THEN a ELSE b
Max(a, b) == IF a > b THEN a ELSE b

IsByte(v) == v \in 0..255

\* data[a], for a < len.
Rd(d, a) == IF a \in DOMAIN d THEN d[a] ELSE 0

\* data[a] = v, for a < len and v a byte.
Wr(d, a, v) ==
  IF v = 0
    THEN [x \in DOMAIN d \ {a} |-> d[x]]
    ELSE [x \in DOMAIN d \cup {a} |-> IF x = a THEN v ELSE d[x]]

\* A run of statements: the buffer so far and "ok" or the exception raised.
Ok(d) == [d |-> d, e |-> "ok"]
Raise(d, e) == [d |-> d, e |-> e]

\* The statement data[a] = v after the run m.
Store(m, L, a, v) ==
  IF m.e # "ok" THEN m
  ELSE IF ~IsByte(v) THEN Raise(m.d, "ValueError")
  ELSE IF a >= L THEN Raise(m.d, "IndexError")
  ELSE Ok(Wr(m.d, a, v))

\* A read of data[a] after the run m (the value is taken with Rd).
Load(m, L, a) ==
  IF m.e # "ok" THEN m
  ELSE IF a >= L THEN Raise(m.d, "IndexError")
  ELSE m

\* ---------------------------------------------------------------- checksum
\* The loop of calculate_checksum over the offsets lo..hi, of which S are the
\* ones holding a non-zero byte; the range is summed half by half.
RECURSIVE SumBytes(_, _, _, _)
SumBytes(d, S, lo, hi) ==
  IF S = {} THEN 0
  ELSE IF lo = hi THEN d[lo]
  ELSE LET mid == (lo + hi) \div 2
       IN  SumBytes(d, {a \in S : a <= mid}, lo, mid)
             + SumBytes(d, {a \in S : a > mid}, mid + 1, hi)

\* A variant of calculate_checksum that runs one byte past end, into the low
\* byte of the bank-2 checksum field; the idempotence property C14 must tell
\* it from calculate_checksum.
calculate_checksum_past_end(d, start, end) ==
  SumBytes(d, {a \in DOMAIN d : a >= start /\ a <= end + 1}, start, end + 1) % 65536

\* A variant of calculate_checksum that stops one byte before end; the
\* sensitivity property C19 must tell it from calculate_checksum.
calculate_checksum_open_end(d, start, end) ==
  SumBytes(d, {a \in DOMAIN d : a >= start /\ a <= end - 1}, start, end - 1) % 65536

\* calculate_checksum: the sum of data[start..end] & 0xFFFF.  The zero bytes
\* add nothing, so the sum runs over the non-zero bytes of the range.
calculate_checksum(d, start, end) ==
  SumBytes(d, {a \in DOMAIN d : a >= start /\ a <= end}, start, end) % 65536

\* The 16-bit value stored low byte first at a.
StoredLE(d, a) == Rd(d, a) + 256 * Rd(d, a + 1)

\* A variant of update_checksum that recomputes the bank-2 checksum only; the
\* checksum property C1 must tell it from update_checksum.
update_checksum_bank2_only(d, L) ==
  LET m3 == Load(Ok(d), L, CHECKSUM_DATA_END)
      checksum2 == calculate_checksum(d, CHECKSUM_DATA_START, CHECKSUM_DATA_END)
      m4 == Store(m3, L, CHECKSUM_OFFSET, checksum2 % 256)
      m5 == Store(m4, L, CHECKSUM_OFFSET + 1, (checksum2 \div 256) % 256)
  IN  m5

\* update_checksum: bank 1 first, then bank 2.  calculate_checksum reads up to
\* its end offset, which raises IndexError on a buffer that ends before it.
update_checksum(d, L) ==
  LET m0 == Load(Ok(d), L, CHECKSUM_DATA_END_BANK1)
      checksum1 == calculate_checksum(d, CHECKSUM_DATA_START_BANK1, CHECKSUM_DATA_END_BANK1)
      m1 == Store(m0, L, CHECKSUM_OFFSET_BANK1, checksum1 % 256)
      m2 == Store(m1, L, CHECKSUM_OFFSET_BANK1 + 1, (checksum1 \div 256) % 256)
      m3 == Load(m2, L, CHECKSUM_DATA_END)
      checksum2 == calculate_checksum(m2.d, CHECKSUM_DATA_START, CHECKSUM_DATA_END)
      m4 == Store(m3, L, CHECKSUM_OFFSET, checksum2 % 256)
      m5 == Store(m4, L, CHECKSUM_OFFSET + 1, (checksum2 \div 256) % 256)
  IN  m5

\* ----------------------------------------------------------------- pockets
\* What one call reports: the kind of result and the quantities it names.
Result(kind, old, new) == [kind |-> kind, old |-> old, new |-> new]
NoResult == Result("none", 0, 0)

\* The scan of add_item_to_pocket_single from slot i: the first index whose
\* identifier byte equals item_id, -1 when none does, -2 when a read raises.
RECURSIVE FindSlot(_, _, _, _, _, _)
FindSlot(d, L, pocket, item_id, i, count) ==
  IF i >= count THEN -1
  ELSE LET offset == pocket.data + i * 2
       IN  IF offset >= L THEN -2
           ELSE IF Rd(d, offset) = item_id THEN i
           ELSE FindSlot(d, L, pocket, item_id, i + 1, count)

\* A variant of HasRoom that lets a pocket with count = max_slots take one
\* more slot; the full-pocket property C5 must tell it from HasRoom.
HasRoom_inclusive(count, max_slots) == count <= max_slots

\* The guard of the append branch.
HasRoom(count, max_slots) == count < max_slots

\* The quantity an upsert stores.
StoredQuantity(quantity) == Min(quantity, 99)

\* A variant of UpdateSlot that stores the quantity over the identifier byte;
\* the frame property C6 must tell it from UpdateSlot.
UpdateSlot_over_id(d, L, offset, q) ==
  LET m0 == Load(Ok(d), L, offset + 1)
      old == Rd(d, offset + 1)
      m1 == Store(m0, L, offset, q)
  IN  IF m1.e = "ok"
        THEN [d |-> m1.d, res |-> Result("Updated", old, q)]
        ELSE [d |-> m1.d, res |-> Result(m1.e, 0, 0)]

\* The update branch: the slot at offset holds item_id.
UpdateSlot(d, L, offset, q) ==
  LET m0 == Load(Ok(d), L, offset + 1)
      old == Rd(d, offset + 1)
      m1 == Store(m0, L, offset + 1, q)
  IN  IF m1.e = "ok"
        THEN [d |-> m1.d, res |-> Result("Updated", old, q)]
        ELSE [d |-> m1.d, res |-> Result(m1.e, 0, 0)]

\* A variant of AppendSlot that writes the new slot but leaves the count
\* byte; the structural property C7 must tell it from AppendSlot.
AppendSlot_keeps_count(d, L, pocket, count, item_id, q) ==
  LET offset == pocket.data + count * 2
      m1 == Store(Ok(d), L, offset, item_id)
      m2 == Store(m1, L, offset + 1, q)
  IN  IF m2.e = "ok"
        THEN [d |-> m2.d, res |-> Result("Added", 0, q)]
        ELSE [d |-> m2.d, res |-> Result(m2.e, 0, 0)]

\* The append branch: identifier, quantity, then the count byte.
AppendSlot(d, L, pocket, count, item_id, q) ==
  LET offset == pocket.data + count * 2
      m1 == Store(Ok(d), L, offset, item_id)
      m2 == Store(m1, L, offset + 1, q)
      m3 == Store(m2, L, pocket.count, count + 1)
  IN  IF m3.e = "ok"
        THEN [d |-> m3.d, res |-> Result("Added", 0, q)]
        ELSE [d |-> m3.d, res |-> Result(m3.e, 0, 0)]

\* add_item_to_pocket_single: [d, res], res.kind one of "Updated", "Added",
\* "Pocket full!", "IndexError", "ValueError".
add_item_to_pocket_single(d, L, pocket, item_id, quantity) ==
  IF pocket.count >= L THEN [d |-> d, res |-> Result("IndexError", 0, 0)]
  ELSE
  LET count == Rd(d, pocket.count)
      found == FindSlot(d, L, pocket, item_id, 0, count)
      q == StoredQuantity(quantity)
  IN  IF found = -2 THEN [d |-> d, res |-> Result("IndexError", 0, 0)]
      ELSE IF found >= 0 THEN UpdateSlot(d, L, pocket.data + found * 2, q)
      ELSE IF HasRoom(count, pocket.max_slots) THEN AppendSlot(d, L, pocket, count, item_id, q)
      ELSE [d |-> d, res |-> Result("Pocket full!", 0, 0)]

IsError(res) == res.kind \in {"IndexError", "ValueError"}

\* add_item_to_pocket: bank 1, then bank 2; an exception in the first call
\* ends the function before the second.
add_item_to_pocket(d, L, pocket_name, item_id, quantity) ==
  LET c1 == add_item_to_pocket_single(d, L, POCKETS_BANK1[pocket_name], item_id, quantity)
  IN  IF IsError(c1.res)
        THEN [d |-> c1.d, r1 |-> c1.res, r2 |-> NoResult]
        ELSE LET c2 == add_item_to_pocket_single(c1.d, L, POCKETS[pocket_name], item_id, quantity)
             IN  [d |-> c2.d, r1 |-> c1.res, r2 |-> c2.res]

\* ------------------------------------------------------------------- money
\* A variant of int_to_bcd with the two digits of each byte exchanged; the
\* round-trip property C15 must tell it from int_to_bcd.
RECURSIVE int_to_bcd_swapped(_, _)
int_to_bcd_swapped(value, length) ==
  IF length = 0 THEN <<>>
  ELSE LET low == value % 10
           high == (value \div 10) % 10
       IN  int_to_bcd_swapped((value \div 10) \div 10, length - 1) \o <<(low * 16) + high>>

\* int_to_bcd: two decimal digits per byte, most significant byte first.
RECURSIVE int_to_bcd(_, _)
int_to_bcd(value, length) ==
  IF length = 0 THEN <<>>
  ELSE LET low == value % 10
           high == (value \div 10) % 10
       IN  int_to_bcd((value \div 10) \div 10, length - 1) \o <<(high * 16) + low>>

\* bcd_to_int over a sequence of bytes: base 100 per byte.
RECURSIVE bcd_to_int(_)
bcd_to_int(bytes) ==
  IF bytes = <<>> THEN 0
  ELSE LET n == Len(bytes)
           byte == bytes[n]
       IN  bcd_to_int(SubSeq(bytes, 1, n - 1)) * 100 + (byte \div 16) * 10 + (byte % 16)

\* A variant of max_money that stores the bytes at the bank-1 address of the
\* money field; the coverage property C22 must tell it from max_money.
max_money_in_bank1(d, L) ==
  LET bcd == int_to_bcd(999999, 3)
      m1 == Store(Ok(d), L, MONEY_OFFSET - BANK1_OFFSET, bcd[1])
      m2 == Store(m1, L, MONEY_OFFSET - BANK1_OFFSET + 1, bcd[2])
      m3 == Store(m2, L, MONEY_OFFSET - BANK1_OFFSET + 2, bcd[3])
  IN  [d |-> m3.d, res |-> Result(IF m3.e = "ok" THEN "None" ELSE m3.e, 0, 0)]

\* max_money: the three BCD bytes of 999999 at MONEY_OFFSET (bank 2 only).
max_money(d, L) ==
  LET bcd == int_to_bcd(999999, 3)
      m1 == Store(Ok(d), L, MONEY_OFFSET, bcd[1])
      m2 == Store(m1, L, MONEY_OFFSET + 1, bcd[2])
      m3 == Store(m2, L, MONEY_OFFSET + 2, bcd[3])
  IN  [d |-> m3.d, res |-> Result(IF m3.e = "ok" THEN "None" ELSE m3.e, 0, 0)]

\* ------------------------------------------------------------------- party
get_pokemon_offset(slot) == PARTY_DATA_OFFSET + (slot - 1) * PARTY_POKEMON_SIZE

read_word(d, offset) == Rd(d, offset) * 256 + Rd(d, offset + 1)

write_word(m, L, offset, value) ==
  Store(Store(m, L, offset, (value \div 256) % 256), L, offset + 1, value % 256)

get_dvs(d, offset) ==
  LET dv_bytes == Rd(d, offset) * 256 + Rd(d, offset + 1)
  IN  [atk |-> (dv_bytes \div 4096) % 16,
       def |-> (dv_bytes \div 256) % 16,
       spd |-> (dv_bytes \div 16) % 16,
       spc |-> dv_bytes % 16]

\* A variant of set_dvs that stores the low byte first; the round-trip
\* property C17 must tell it from set_dvs.
set_dvs_little_endian(m, L, offset, atk, def, spd, spc) ==
  LET dv_bytes == atk * 4096 + def * 256 + spd * 16 + spc
  IN  Store(Store(m, L, offset, dv_bytes % 256), L, offset + 1, (dv_bytes \div 256) % 256)

\* set_dvs, for nibbles in 0..15 (the bit fields do not overlap).
set_dvs(m, L, offset, atk, def, spd, spc) ==
  LET dv_bytes == atk * 4096 + def * 256 + spd * 16 + spc
  IN  Store(Store(m, L, offset, (dv_bytes \div 256) % 256), L, offset + 1, dv_bytes % 256)

\* A variant of is_shiny without the test on atk; the predicate property C18
\* must tell it from is_shiny.
is_shiny_any_atk(dvs) ==
  IF dvs.spd # 10 \/ dvs.def # 10 \/ dvs.spc # 10 THEN FALSE
  ELSE TRUE

is_shiny(dvs) ==
  IF dvs.spd # 10 \/ dvs.def # 10 \/ dvs.spc # 10 THEN FALSE
  ELSE dvs.atk \in {2, 3, 6, 7, 10, 11, 14, 15}

make_shiny_dvs == [atk |-> 15, def |-> 10, spd |-> 10, spc |-> 10]

\* A variant of SlotInParty without the comparison against the party count;
\* the bad-slot property C10 must tell it from SlotInParty.
SlotInParty_ignores_count(slot, count) == ~(slot < 1 \/ slot > 6)

\* The slot test of get_party_pokemon, given the party count byte.
SlotInParty(slot, count) == ~(slot < 1 \/ slot > 6) /\ ~(slot > count)

\* get_party_pokemon: kind "None", "IndexError" or "pkmn".  It reads the count
\* byte, then the record's fields up to offset + PKMN_HP_MAX + 1, so it raises
\* on a buffer that ends inside the record.
get_party_pokemon(d, L, slot) ==
  LET offset == get_pokemon_offset(slot)
      none == [kind |-> "None", offset |-> 0, is_shiny |-> FALSE]
      err == [kind |-> "IndexError", offset |-> 0, is_shiny |-> FALSE]
  IN  IF slot < 1 \/ slot > 6 THEN none
      ELSE IF PARTY_COUNT_OFFSET >= L THEN err
      ELSE IF ~SlotInParty(slot, Rd(d, PARTY_COUNT_OFFSET)) THEN none
      ELSE IF offset + PKMN_HP_MAX + 1 >= L THEN err
      ELSE [kind |-> "pkmn", offset |-> offset,
            is_shiny |-> is_shiny(get_dvs(d, offset + PKMN_DVS))]

\* What a party edit returns: "True", "False", or the exception raised.
Done(d, m) == [d |-> m.d, res |-> Result(IF m.e = "ok" THEN "True" ELSE m.e, 0, 0)]
Failed(d, pkmn) ==
  [d |-> d, res |-> Result(IF pkmn.kind = "None" THEN "False" ELSE pkmn.kind, 0, 0)]

make_pokemon_shiny(d, L, slot) ==
  LET pkmn == get_party_pokemon(d, L, slot)
      s == make_shiny_dvs
  IN  IF pkmn.kind # "pkmn" THEN Failed(d, pkmn)
      ELSE IF pkmn.is_shiny THEN [d |-> d, res |-> Result("False", 0, 0)]
      ELSE Done(d, set_dvs(Ok(d), L, pkmn.offset + PKMN_DVS, s.atk, s.def, s.spd, s.spc))

max_pokemon_stats(d, L, slot) ==
  LET pkmn == get_party_pokemon(d, L, slot)
      offset == pkmn.offset
      m1 == set_dvs(Ok(d), L, offset + PKMN_DVS, 15, 15, 15, 15)
      m2 == write_word(m1, L, offset + PKMN_HP_EV, 65535)
      m3 == write_word(m2, L, offset + PKMN_ATK_EV, 65535)
      m4 == write_word(m3, L, offset + PKMN_DEF_EV, 65535)
      m5 == write_word(m4, L, offset + PKMN_SPD_EV, 65535)
      m6 == write_word(m5, L, offset + PKMN_SPC_EV, 65535)
  IN  IF pkmn.kind # "pkmn" THEN Failed(d, pkmn) ELSE Done(d, m6)

set_pokemon_level(d, L, slot, level) ==
  LET pkmn == get_party_pokemon(d, L, slot)
  IN  IF pkmn.kind # "pkmn" THEN Failed(d, pkmn)
      ELSE Done(d, Store(Ok(d), L, pkmn.offset + PKMN_LEVEL, Max(1, Min(100, level))))

\* One iteration of heal_all_pokemon's loop, for slot i.  (In HealFrom,
\* mv \in {m} takes the value of the run so far once.)
HealOne(m, L, i) ==
  LET pkmn == get_party_pokemon(m.d, L, i)
      offset == pkmn.offset
      max_hp == read_word(m.d, offset + PKMN_HP_MAX)
      m1 == write_word(m, L, offset + PKMN_HP_CURRENT, max_hp)
      m2 == Store(m1, L, offset + PKMN_STATUS, 0)
      m3 == Store(m2, L, offset + PKMN_PP1, 35)
      m4 == Store(m3, L, offset + PKMN_PP2, 35)
      m5 == Store(m4, L, offset + PKMN_PP3, 35)
      m6 == Store(m5, L, offset + PKMN_PP4, 35)
  IN  IF m.e # "ok" THEN m
      ELSE IF pkmn.kind = "None" THEN m
      ELSE IF pkmn.kind = "IndexError" THEN Raise(m.d, "IndexError")
      ELSE m6

RECURSIVE HealFrom(_, _, _, _)
HealFrom(m, L, i, count) ==
  CHOOSE r \in
    { IF i > count THEN mv ELSE HealFrom(HealOne(mv, L, i), L, i + 1, count)
      : mv \in {m} } : TRUE

heal_all_pokemon(d, L) ==
  IF PARTY_COUNT_OFFSET >= L THEN [d |-> d, res |-> Result("IndexError", 0, 0)]
  ELSE LET m == HealFrom(Ok(d), L, 1, Rd(d, PARTY_COUNT_OFFSET))
       IN  [d |-> m.d, res |-> Result(IF m.e = "ok" THEN "None" ELSE m.e, 0, 0)]

set_pokemon_move(d, L, slot, move_slot, move_id) ==
  LET pkmn == get_party_pokemon(d, L, slot)
      move_offsets == <<PKMN_MOVE1, PKMN_MOVE2, PKMN_MOVE3, PKMN_MOVE4>>
  IN  IF pkmn.kind # "pkmn" THEN Failed(d, pkmn)
      ELSE IF move_slot < 1 \/ move_slot > 4 THEN [d |-> d, res |-> Result("False", 0, 0)]
      ELSE Done(d, Store(Ok(d), L, pkmn.offset + move_offsets[move_slot], move_id))

give_pokemon_item(d, L, slot, item_id) ==
  LET pkmn == get_party_pokemon(d, L, slot)
  IN  IF pkmn.kind # "pkmn" THEN Failed(d, pkmn)
      ELSE Done(d, Store(Ok(d), L, pkmn.offset + PKMN_ITEM, item_id))

\* A variant of set_pokemon_species that writes the species into the record
\* only; the lock-step property C11 must tell it from set_pokemon_species.
set_pokemon_species_record_only(d, L, slot, species_id, level) ==
  LET pkmn == get_party_pokemon(d, L, slot)
      offset == pkmn.offset
      m2 == Store(Ok(d), L, offset + PKMN_SPECIES, species_id)
      m3 == IF level # <<>> /\ level[1] # 0
              THEN Store(m2, L, offset + PKMN_LEVEL, Min(100, Max(1, level[1])))
              ELSE m2
  IN  IF pkmn.kind # "pkmn" THEN Failed(d, pkmn) ELSE Done(d, m3)

\* set_pokemon_species; level is <<>> for the default None, else <<value>>.
\* `if level:` is false for None and for 0.
set_pokemon_species(d, L, slot, species_id, level) ==
  LET pkmn == get_party_pokemon(d, L, slot)
      offset == pkmn.offset
      m1 == Store(Ok(d), L, PARTY_SPECIES_OFFSET + slot - 1, species_id)
      m2 == Store(m1, L, offset + PKMN_SPECIES, species_id)
      m3 == IF level # <<>> /\ level[1] # 0
              THEN Store(m2, L, offset + PKMN_LEVEL, Min(100, Max(1, level[1])))
              ELSE m2
  IN  IF pkmn.kind # "pkmn" THEN Failed(d, pkmn) ELSE Done(d, m3)

add_suicune(d, L, slot) ==
  LET pkmn == get_party_pokemon(d, L, slot)
      offset == pkmn.offset
      m1 == Store(Ok(d), L, PARTY_SPECIES_OFFSET + slot - 1, SUICUNE_ID)
      m2 == Store(m1, L, offset + PKMN_SPECIES, SUICUNE_ID)
      m3 == Store(m2, L, offset + PKMN_LEVEL, 40)
      m4 == Store(m3, L, offset + PKMN_MOVE1, 57)
      m5 == Store(m4, L, offset + PKMN_MOVE2, 58)
      m6 == Store(m5, L, offset + PKMN_MOVE3, 240)
      m7 == Store(m6, L, offset + PKMN_MOVE4, 62)
      m8 == Store(m7, L, offset + PKMN_PP1, 15)
      m9 == Store(m8, L, offset + PKMN_PP2, 10)
      m10 == Store(m9, L, offset + PKMN_PP3, 5)
      m11 == Store(m10, L, offset + PKMN_PP4, 20)
      m12 == set_dvs(m11, L, offset + PKMN_DVS, 15, 10, 10, 10)
      m13 == write_word(m12, L, offset + PKMN_HP_EV, 65535)
      m14 == write_word(m13, L, offset + PKMN_ATK_EV, 65535)
      m15 == write_word(m14, L, offset + PKMN_DEF_EV, 65535)
      m16 == write_word(m15, L, offset + PKMN_SPD_EV, 65535)
      m17 == write_word(m16, L, offset + PKMN_SPC_EV, 65535)
      m18 == write_word(m17, L, offset + PKMN_HP_MAX, 160)
      m19 == write_word(m18, L, offset + PKMN_HP_CURRENT, 160)
      m20 == Store(m19, L, offset + PKMN_STATUS, 0)
      m21 == Store(m20, L, offset + PKMN_FRIENDSHIP, 255)
      m22 == Store(m21, L, offset + PKMN_ITEM, 0)
  IN  IF pkmn.kind # "pkmn" THEN Failed(d, pkmn) ELSE Done(d, m22)

\* --------------------------------------------------------- add_masterballs.py
\* The edit and checksum part of the script's add_master_balls(save_path,
\* quantity), on the bytes read from the file: kind "True" (the buffer is then
\* written to the file), "False" (pocket full, nothing written) or an
\* exception.  Only the bank-2 pocket and the bank-2 checksum are touched.
script_add_master_balls(d, L, quantity) ==
  LET pocket == [count |-> BALL_POCKET_COUNT_OFFSET, data |-> BALL_POCKET_DATA_OFFSET,
                 max_slots |-> MAX_BALL_POCKET_SIZE]
      c == add_item_to_pocket_single(d, L, pocket, MASTER_BALL_ID, quantity)
      m0 == Load(Ok(c.d), L, CHECKSUM_DATA_END)
      new_checksum == calculate_checksum(c.d, CHECKSUM_DATA_START, CHECKSUM_DATA_END)
      m1 == Store(m0, L, CHECKSUM_OFFSET, new_checksum % 256)
      m2 == Store(m1, L, CHECKSUM_OFFSET + 1, (new_checksum \div 256) % 256)
  IN  IF IsError(c.res) THEN [d |-> c.d, res |-> c.res]
      ELSE IF c.res.kind = "Pocket full!" THEN [d |-> c.d, res |-> Result("False", 0, 0)]
      ELSE [d |-> m2.d, res |-> Result(IF m2.e = "ok" THEN "True" ELSE m2.e, c.res.old, c.res.new)]

\* ------------------------------------------------------------ save images
\* Slot pairs (identifier, quantity) that fill n slots with identifiers other
\* than the ones the edits below insert.
Filler(n) == [i \in 1..n |-> <<15 + i, 10>>]

\* The bytes of a pocket: its count byte and the slot pairs that follow it.
PocketBytes(pocket, count, slots) ==
  [a \in {pocket.count} \cup {pocket.data + k : k \in 0..(2 * Len(slots) - 1)} |->
     IF a = pocket.count THEN count
     ELSE LET k == a - pocket.data IN slots[(k \div 2) + 1][(k % 2) + 1]]

\* Pocket contents a save file may hold.  "over" and "over2" have a count byte
\* one above max_slots (a corrupt file) and differ in the pair that follows
\* the pocket's last slot.
PocketImage(pocket, kind) ==
  CASE kind = "empty" -> PocketBytes(pocket, 0, <<>>)
    [] kind = "one"   -> PocketBytes(pocket, 1, <<<<MASTER_BALL_ID, 5>>>>)
    [] kind = "full"  -> PocketBytes(pocket, pocket.max_slots, Filler(pocket.max_slots))
    [] kind = "over"  -> PocketBytes(pocket, pocket.max_slots + 1,
                                     Filler(pocket.max_slots) \o <<<<MASTER_BALL_ID, 7>>>>)
    [] kind = "over2" -> PocketBytes(pocket, pocket.max_slots + 1,
                                     Filler(pocket.max_slots) \o <<<<9, 7>>>>)

\* One party record: species, level, the two DV bytes and max HP.
RecordBytes(slot, species, level, dv_hi, dv_lo) ==
  LET offset == get_pokemon_offset(slot)
  IN  (offset + PKMN_SPECIES :> species) @@ (offset + PKMN_LEVEL :> level)
      @@ (offset + PKMN_DVS :> dv_hi) @@ (offset + PKMN_DVS + 1 :> dv_lo)
      @@ (offset + PKMN_HP_MAX + 1 :> 60) @@ (offset + PKMN_STATUS :> 4)

\* Party contents: no Pokemon, two Pokemon (the second one shiny), or two
\* Pokemon under a count byte of 7 (a corrupt file).
PartyImage(kind) ==
  LET two == (PARTY_SPECIES_OFFSET :> 25) @@ (PARTY_SPECIES_OFFSET + 1 :> 150)
             @@ (PARTY_SPECIES_OFFSET + 2 :> 255)
             @@ RecordBytes(1, 25, 5, 85, 85) @@ RecordBytes(2, 150, 70, 250, 170)
  IN  CASE kind = "none" -> (PARTY_COUNT_OFFSET :> 0)
        [] kind = "two"  -> (PARTY_COUNT_OFFSET :> 2) @@ two
        [] kind = "over" -> (PARTY_COUNT_OFFSET :> 7) @@ two

\* The sparse form of a byte map cut to a file of L bytes.
Normalise(f, L) == [a \in {x \in DOMAIN f : f[x] # 0 /\ x < L} |-> f[a]]

Scenario(balls1, balls2, items1, items2, party, L, sums) ==
  [balls1 |-> balls1, balls2 |-> balls2, items1 |-> items1, items2 |-> items2,
   party |-> party, len |-> L, sums |-> sums]

\* The save files a session starts from: full-size files as the game writes
\* them (sums: both checksum fields valid), full-size files with stale
\* checksum fields, with banks that differ, with corrupt count bytes, and
\* files shorter than SAVE_SIZE, which read_save accepts.
Scenarios ==
  { Scenario("empty", "empty", "empty", "empty", "none", SAVE_SIZE, TRUE),
    Scenario("one", "one", "empty", "empty", "two", SAVE_SIZE, TRUE),
    Scenario("one", "one", "one", "one", "two", SAVE_SIZE, FALSE),
    Scenario("full", "full", "full", "full", "two", SAVE_SIZE, FALSE),
    Scenario("empty", "full", "empty", "empty", "none", SAVE_SIZE, FALSE),
    Scenario("over", "over2", "empty", "empty", "over", SAVE_SIZE, FALSE),
    Scenario("empty", "empty", "empty", "empty", "two", BALL_POCKET_DATA_OFFSET - BANK1_OFFSET + 1, FALSE),
    Scenario("one", "one", "empty", "empty", "two", CHECKSUM_DATA_START - 9, FALSE),
    Scenario("one", "one", "empty", "empty", "two", PARTY_DATA_OFFSET + PKMN_DVS + 1, FALSE) }

ImageOf(s) ==
  LET raw == PocketImage(POCKETS_BANK1["balls"], s.balls1)
             @@ PocketImage(POCKETS["balls"], s.balls2)
             @@ PocketImage(POCKETS_BANK1["items"], s.items1)
             @@ PocketImage(POCKETS["items"], s.items2)
             @@ PartyImage(s.party)
      img == Normalise(raw, s.len)
  IN  IF s.sums THEN update_checksum(img, s.len).d ELSE img

\* ---------------------------------------------------- the flags of main
BALLS == <<1, 2, 3, 4, 7, 160, 161, 162, 163, 164, 165, 166>>
HEALING_ITEMS == <<13, 14, 16, 18, 25>>
STAT_ITEMS == <<8, 45, 46, 47, 48, 49, 74>>

\* add_item_to_pocket as one statement of a run.  (mv \in {m} takes the value
\* of the run so far once.)
AddItem(m, L, pocket_name, item_id, quantity) ==
  CHOOSE r \in
    { IF mv.e # "ok" THEN mv
      ELSE LET c == add_item_to_pocket(mv.d, L, pocket_name, item_id, quantity)
           IN  IF IsError(c.r1) THEN Raise(c.d, c.r1.kind)
               ELSE IF IsError(c.r2) THEN Raise(c.d, c.r2.kind)
               ELSE Ok(c.d) : mv \in {m} } : TRUE

\* The loops of add_all_balls, add_healing_items and add_stat_items.
RECURSIVE AddItems(_, _, _, _, _)
AddItems(m, L, pocket_name, ids, quantity) ==
  CHOOSE r \in
    { IF ids = <<>> THEN mv
      ELSE AddItems(AddItem(mv, L, pocket_name, Head(ids), quantity), L, pocket_name,
                    Tail(ids), quantity) : mv \in {m} } : TRUE

add_master_balls(m, L) == AddItem(m, L, "balls", MASTER_BALL_ID, 99)
add_rare_candy(m, L) == AddItem(m, L, "items", RARE_CANDY_ID, 99)
add_all_balls(m, L) == AddItems(m, L, "balls", BALLS, 99)
add_healing_items(m, L) == AddItems(m, L, "items", HEALING_ITEMS, 99)
add_stat_items(m, L) == AddItems(m, L, "items", STAT_ITEMS, 99)

\* max_money as one statement of a run.
Money(m, L) ==
  CHOOSE r \in
    { IF mv.e # "ok" THEN mv
      ELSE LET c == max_money(mv.d, L)
           IN  IF IsError(c.res) THEN Raise(c.d, c.res.kind) ELSE Ok(c.d)
      : mv \in {m} } : TRUE

\* `--shiny all` and `--maxstats all`: the call for each slot 1..count.
RECURSIVE ShinyAll(_, _, _, _)
ShinyAll(m, L, i, count) ==
  CHOOSE r \in
    { IF i > count \/ mv.e # "ok" THEN mv
      ELSE LET c == make_pokemon_shiny(mv.d, L, i)
               next == IF IsError(c.res) THEN Raise(c.d, c.res.kind) ELSE Ok(c.d)
           IN  ShinyAll(next, L, i + 1, count) : mv \in {m} } : TRUE

RECURSIVE MaxstatsAll(_, _, _, _)
MaxstatsAll(m, L, i, count) ==
  CHOOSE r \in
    { IF i > count \/ mv.e # "ok" THEN mv
      ELSE LET c == max_pokemon_stats(mv.d, L, i)
               next == IF IsError(c.res) THEN Raise(c.d, c.res.kind) ELSE Ok(c.d)
           IN  MaxstatsAll(next, L, i + 1, count) : mv \in {m} } : TRUE

\* ------------------------------------------------------------- call inputs
ItemIds == {MASTER_BALL_ID, RARE_CANDY_ID}
Quantities == {-1, 50, 99, 100}
Slots == {0, 1, 3, 7}
Levels == {0, 50, 101}
MoveSlots == {0, 4}
MoveIds == {57}
HeldItems == {3}
SpeciesIds == {151}
OptLevels == {<<>>, <<0>>, <<101>>}

\* ----------------------------------------------------------- state machine
\* The record of the last call: its name, its arguments (0, "none" or <<>>
\* where it has none), what it returned per bank, and the buffer before it.
CallRec(op, pocket, bank, item_id, quantity, slot, x, level, r1, r2) ==
  [op |-> op, pocket |-> pocket, bank |-> bank, item_id |-> item_id,
   quantity |-> quantity, slot |-> slot, x |-> x, level |-> level,
   r1 |-> r1, r2 |-> r2, pre |-> data]

PartyRec(op, slot, x, level, res) ==
  CallRec(op, "none", 0, 0, 0, slot, x, level, res, NoResult)

\* What a run of statements comes to as a result.
RunResult(m) == Result(IF m.e = "ok" THEN "None" ELSE m.e, 0, 0)

InitFrom(S) ==
  \E s \in S :
    /\ data = ImageOf(s)
    /\ len = s.len
    /\ file = ImageOf(s)
    /\ pc = "editing"
    /\ edits = 0
    /\ stage = 0
    /\ last = [op |-> "read_save", pocket |-> "none", bank |-> 0, item_id |-> 0,
               quantity |-> 0, slot |-> 0, x |-> 0, level |-> <<>>,
               r1 |-> NoResult, r2 |-> NoResult, pre |-> ImageOf(s)]

Init == InitFrom(Scenarios)

\* ---- calls of the editor's functions, with any arguments
CanEdit == pc = "editing" /\ edits < MaxEdits

\* The buffer after an edit call; an exception is not caught and ends the run.
Edited(d, rec) ==
  /\ data' = d
  /\ last' = rec
  /\ edits' = edits + 1
  /\ pc' = IF IsError(rec.r1) \/ IsError(rec.r2) THEN "crashed" ELSE "editing"
  /\ UNCHANGED <<len, file, stage>>

AddItemToPocketSingle ==
  /\ CanEdit
  /\ \E bank \in {1, 2}, pocket_name \in PocketNames, item_id \in ItemIds, quantity \in Quantities :
       \E c \in {add_item_to_pocket_single(data, len, PocketOf(bank, pocket_name), item_id, quantity)} :
         Edited(c.d, CallRec("add_item_to_pocket_single", pocket_name, bank, item_id,
                               quantity, 0, 0, <<>>, c.res, NoResult))

AddItemToPocket ==
  /\ CanEdit
  /\ \E pocket_name \in PocketNames, item_id \in ItemIds, quantity \in Quantities :
       \E c \in {add_item_to_pocket(data, len, pocket_name, item_id, quantity)} :
         Edited(c.d, CallRec("add_item_to_pocket", pocket_name, 0, item_id,
                               quantity, 0, 0, <<>>, c.r1, c.r2))

MaxMoney ==
  /\ CanEdit
  /\ \E c \in {max_money(data, len)} :
       Edited(c.d, PartyRec("max_money", 0, 0, <<>>, c.res))

MakePokemonShiny ==
  /\ CanEdit
  /\ \E slot \in Slots :
       \E c \in {make_pokemon_shiny(data, len, slot)} :
         Edited(c.d, PartyRec("make_pokemon_shiny", slot, 0, <<>>, c.res))

MaxPokemonStats ==
  /\ CanEdit
  /\ \E slot \in Slots :
       \E c \in {max_pokemon_stats(data, len, slot)} :
         Edited(c.d, PartyRec("max_pokemon_stats", slot, 0, <<>>, c.res))

SetPokemonLevel ==
  /\ CanEdit
  /\ \E slot \in Slots, level \in Levels :
       \E c \in {set_pokemon_level(data, len, slot, level)} :
         Edited(c.d, PartyRec("set_pokemon_level", slot, 0, <<level>>, c.res))

HealAllPokemon ==
  /\ CanEdit
  /\ \E c \in {heal_all_pokemon(data, len)} :
       Edited(c.d, PartyRec("heal_all_pokemon", 0, 0, <<>>, c.res))

SetPokemonMove ==
  /\ CanEdit
  /\ \E slot \in Slots, move_slot \in MoveSlots, move_id \in MoveIds :
       \E c \in {set_pokemon_move(data, len, slot, move_slot, move_id)} :
         Edited(c.d, PartyRec("set_pokemon_move", slot, move_id, <<move_slot>>, c.res))

GivePokemonItem ==
  /\ CanEdit
  /\ \E slot \in Slots, item_id \in HeldItems :
       \E c \in {give_pokemon_item(data, len, slot, item_id)} :
         Edited(c.d, PartyRec("give_pokemon_item", slot, item_id, <<>>, c.res))

SetPokemonSpecies ==
  /\ CanEdit
  /\ \E slot \in Slots, species_id \in SpeciesIds, level \in OptLevels :
       \E c \in {set_pokemon_species(data, len, slot, species_id, level)} :
         Edited(c.d, PartyRec("set_pokemon_species", slot, species_id, level, c.res))

AddSuicune ==
  /\ CanEdit
  /\ \E slot \in Slots :
       \E c \in {add_suicune(data, len, slot)} :
         Edited(c.d, PartyRec("add_suicune", slot, 0, <<>>, c.res))

NextPocket == AddItemToPocketSingle \/ AddItemToPocket

SpecPocket == Init /\ [][NextPocket]_vars

NextParty ==
  \/ MaxMoney
  \/ MakePokemonShiny
  \/ MaxPokemonStats
  \/ SetPokemonLevel
  \/ HealAllPokemon
  \/ SetPokemonMove
  \/ GivePokemonItem
  \/ SetPokemonSpecies
  \/ AddSuicune

\* The files the party calls start from: the pockets play no part in them.
PartyScenarios ==
  {s \in Scenarios : s.balls1 \in {"empty", "one"} /\ s.items1 = "empty"}

InitParty == InitFrom(PartyScenarios)

SpecParty == InitParty /\ [][NextParty]_vars

\* ---- main: each flag is handled once, in the order of the code
CanFlag(k) == pc = "editing" /\ edits < MaxFlags /\ stage < k

Flagged(k, m, rec) ==
  /\ data' = m.d
  /\ last' = rec
  /\ edits' = edits + 1
  /\ stage' = k
  /\ pc' = IF m.e = "ok" THEN "editing" ELSE "crashed"
  /\ UNCHANGED <<len, file>>

FlagMasterballs ==
  /\ CanFlag(1)
  /\ \E m \in {add_master_balls(Ok(data), len)} :
       Flagged(1, m, PartyRec("--masterballs", 0, 0, <<>>, RunResult(m)))

FlagRarecandy ==
  /\ CanFlag(2)
  /\ \E m \in {add_rare_candy(Ok(data), len)} :
       Flagged(2, m, PartyRec("--rarecandy", 0, 0, <<>>, RunResult(m)))

FlagAllballs ==
  /\ CanFlag(3)
  /\ \E m \in {add_all_balls(Ok(data), len)} :
       Flagged(3, m, PartyRec("--allballs", 0, 0, <<>>, RunResult(m)))

FlagMoney ==
  /\ CanFlag(4)
  /\ \E m \in {Money(Ok(data), len)} :
       Flagged(4, m, PartyRec("--money", 0, 0, <<>>, RunResult(m)))

FlagHealing ==
  /\ CanFlag(5)
  /\ \E m \in {add_healing_items(Ok(data), len)} :
       Flagged(5, m, PartyRec("--healing", 0, 0, <<>>, RunResult(m)))

FlagStats ==
  /\ CanFlag(6)
  /\ \E m \in {add_stat_items(Ok(data), len)} :
       Flagged(6, m, PartyRec("--stats", 0, 0, <<>>, RunResult(m)))

\* --all-items: the six calls in the order main makes them.
FlagAllItems ==
  /\ CanFlag(7)
  /\ \E m1 \in {add_master_balls(Ok(data), len)} :
     \E m2 \in {add_all_balls(m1, len)} :
     \E m3 \in {add_rare_candy(m2, len)} :
     \E m4 \in {add_healing_items(m3, len)} :
     \E m5 \in {add_stat_items(m4, len)} :
     \E m \in {Money(m5, len)} :
       Flagged(7, m, PartyRec("--all-items", 0, 0, <<>>, RunResult(m)))

\* --shiny N, or --shiny all (x = 1).
FlagShiny ==
  /\ CanFlag(8)
  /\ \/ \E slot \in Slots :
          \E c \in {make_pokemon_shiny(data, len, slot)} :
            Flagged(8, Raise(c.d, IF IsError(c.res) THEN c.res.kind ELSE "ok"),
                      PartyRec("--shiny", slot, 0, <<>>, c.res))
     \/ \E m \in {IF PARTY_COUNT_OFFSET >= len THEN Raise(data, "IndexError")
                 ELSE ShinyAll(Ok(data), len, 1, Rd(data, PARTY_COUNT_OFFSET))} :
          Flagged(8, m, PartyRec("--shiny", 0, 1, <<>>, RunResult(m)))

\* --maxstats N, or --maxstats all (x = 1).
FlagMaxstats ==
  /\ CanFlag(9)
  /\ \/ \E slot \in Slots :
          \E c \in {max_pokemon_stats(data, len, slot)} :
            Flagged(9, Raise(c.d, IF IsError(c.res) THEN c.res.kind ELSE "ok"),
                      PartyRec("--maxstats", slot, 0, <<>>, c.res))
     \/ \E m \in {IF PARTY_COUNT_OFFSET >= len THEN Raise(data, "IndexError")
                 ELSE MaxstatsAll(Ok(data), len, 1, Rd(data, PARTY_COUNT_OFFSET))} :
          Flagged(9, m, PartyRec("--maxstats", 0, 1, <<>>, RunResult(m)))

FlagLevel ==
  /\ CanFlag(10)
  /\ \E slot \in Slots, level \in Levels :
       \E c \in {set_pokemon_level(data, len, slot, level)} :
         Flagged(10, Raise(c.d, IF IsError(c.res) THEN c.res.kind ELSE "ok"),
                   PartyRec("--level", slot, 0, <<level>>, c.res))

FlagHeal ==
  /\ CanFlag(11)
  /\ \E c \in {heal_all_pokemon(data, len)} :
       Flagged(11, Raise(c.d, IF IsError(c.res) THEN c.res.kind ELSE "ok"),
                 PartyRec("--heal", 0, 0, <<>>, c.res))

FlagSuicune ==
  /\ CanFlag(12)
  /\ \E slot \in Slots :
       \E c \in {add_suicune(data, len, slot)} :
         Flagged(12, Raise(c.d, IF IsError(c.res) THEN c.res.kind ELSE "ok"),
                   PartyRec("--suicune", slot, 0, <<>>, c.res))

\* write_save: update_checksum, then the whole buffer goes to the file.  main
\* calls it once some edit flag was handled (modified).
WriteSave ==
  /\ pc = "editing"
  /\ edits > 0
  /\ \E m \in {update_checksum(data, len)} :
       /\ data' = m.d
       /\ file' = IF m.e = "ok" THEN m.d ELSE file
       /\ pc' = IF m.e = "ok" THEN "saved" ELSE "crashed"
       /\ last' = PartyRec("write_save", 0, 0, <<>>, RunResult(m))
  /\ UNCHANGED <<len, edits, stage>>

\* add_masterballs.py run on the file: read, upsert, bank-2 checksum, write.
ScriptAddMasterBalls ==
  /\ pc = "editing"
  /\ edits = 0
  /\ \E quantity \in Quantities :
       \E c \in {script_add_master_balls(data, len, quantity)} :
         /\ data' = c.d
         /\ file' = IF c.res.kind = "True" THEN c.d ELSE file
         /\ pc' = IF c.res.kind = "True" THEN "saved"
                  ELSE IF c.res.kind = "False" THEN "done" ELSE "crashed"
         /\ last' = CallRec("script_add_master_balls", "balls", 2, MASTER_BALL_ID,
                            quantity, 0, 0, <<>>, c.res, NoResult)
  /\ UNCHANGED <<len, edits, stage>>

Next ==
  \/ FlagMasterballs
  \/ FlagRarecandy
  \/ FlagAllballs
  \/ FlagMoney
  \/ FlagHealing
  \/ FlagStats
  \/ FlagAllItems
  \/ FlagShiny
  \/ FlagMaxstats
  \/ FlagLevel
  \/ FlagHeal
  \/ FlagSuicune
  \/ WriteSave
  \/ ScriptAddMasterBalls

Spec == Init /\ [][Next]_vars

\* ---- single calls of the codec functions, on a buffer as read from a file
\* The arguments of int_to_bcd: small values, the values around each power of
\* 100, and values above the largest one `length` bytes can hold.
BcdValues ==
  (0..299) \cup {999, 1000, 4095, 9999, 10000, 10001, 65535, 99999, 100000, 123456,
                 500000, 909090, 990099, 999998, 999999, 1000000, 1000001, 1234567,
                 1999999}
BcdLengths == {1, 2, 3}
Nibbles == 0..15

\* The offsets whose byte is replaced: the first and last offset of each
\* summed range, and offsets inside them (a pocket count, a quantity, the party
\* count, a level byte).
ReplacedOffsets ==
  {CHECKSUM_DATA_START_BANK1, CHECKSUM_DATA_START_BANK1 + 1, CHECKSUM_DATA_END_BANK1,
   POCKETS_BANK1["balls"].count, POCKETS_BANK1["balls"].data + 1,
   CHECKSUM_DATA_START, CHECKSUM_DATA_END - 1, CHECKSUM_DATA_END,
   POCKETS["balls"].count, PARTY_COUNT_OFFSET, get_pokemon_offset(1) + PKMN_LEVEL}
ReplacedValues == {0, 1, 5, 128, 255}

\* The summed range an offset lies in.
RangeOf(a) ==
  IF a <= CHECKSUM_DATA_END_BANK1
    THEN [start |-> CHECKSUM_DATA_START_BANK1, end |-> CHECKSUM_DATA_END_BANK1]
    ELSE [start |-> CHECKSUM_DATA_START, end |-> CHECKSUM_DATA_END]

\* The bytes of a sequence stored from offset on, as max_money stores them.
RECURSIVE StoreBytes(_, _, _, _, _)
StoreBytes(m, L, offset, bytes, i) ==
  IF i > Len(bytes) THEN m
  ELSE StoreBytes(Store(m, L, offset + i - 1, bytes[i]), L, offset, bytes, i + 1)

\* bcd_to_int(data, offset, length): the bytes it reads, as a sequence.
BytesAt(d, offset, length) == [i \in 1..length |-> Rd(d, offset + i - 1)]

\* One call ends the run.
Called(d, rec) ==
  /\ data' = d
  /\ last' = rec
  /\ edits' = edits + 1
  /\ pc' = "done"
  /\ UNCHANGED <<len, file, stage>>

CanCall == pc = "editing" /\ edits = 0

\* int_to_bcd(value, length), its bytes stored at MONEY_OFFSET and read back
\* by bcd_to_int(data, MONEY_OFFSET, length): x is the value, quantity the
\* length, level the bytes returned, r1.new the integer read back.
IntToBcd ==
  /\ CanCall
  /\ \E value \in BcdValues, length \in BcdLengths :
       \E bytes \in {int_to_bcd(value, length)} :
         \E m \in {StoreBytes(Ok(data), len, MONEY_OFFSET, bytes, 1)} :
           Called(m.d, CallRec("int_to_bcd", "none", 0, 0, length, 0, value, bytes,
                               Result(m.e, 0, bcd_to_int(BytesAt(m.d, MONEY_OFFSET, length))),
                               NoResult))

\* set_dvs on the DV bytes of record 1: x is the offset, level the tuple
\* <<atk, def, spd, spc>>.
SetDvs ==
  /\ CanCall
  /\ \E atk \in Nibbles, def \in Nibbles, spd \in Nibbles, spc \in Nibbles :
       \E m \in {set_dvs(Ok(data), len, get_pokemon_offset(1) + PKMN_DVS, atk, def, spd, spc)} :
         Called(m.d, CallRec("set_dvs", "none", 0, 0, 0, 1, get_pokemon_offset(1) + PKMN_DVS,
                             <<atk, def, spd, spc>>, Result(m.e, 0, 0), NoResult))

\* calculate_checksum over the range of offset a, on the buffer and on the
\* buffer with the byte at a replaced by v: x is a, quantity is v, r1.old and
\* r1.new are the two values returned.
ReplaceByte ==
  /\ CanCall
  /\ \E a \in ReplacedOffsets, v \in ReplacedValues :
       /\ v # Rd(data, a)
       /\ \E d \in {Wr(data, a, v)} :
            Called(d, CallRec("calculate_checksum", "none", 0, 0, v, 0, a, <<>>,
                              Result("ok", calculate_checksum(data, RangeOf(a).start, RangeOf(a).end),
                                     calculate_checksum(d, RangeOf(a).start, RangeOf(a).end)),
                              NoResult))

NextCodec ==
  \/ IntToBcd
  \/ SetDvs
  \/ ReplaceByte
  \/ MakePokemonShiny
  \/ MaxPokemonStats

\* The files the codec calls start from: full-size files with a party.
CodecScenarios ==
  {s \in Scenarios : s.len = SAVE_SIZE /\ s.party = "two" /\ (s.sums \/ s.balls1 = "full")}

InitCodec == InitFrom(CodecScenarios)

SpecCodec == InitCodec /\ [][NextCodec]_vars

\* ------------------------------------------------------------------ claims
\* The offsets at which two buffers differ.
DiffSet(d1, d2) == {a \in DOMAIN d1 \cup DOMAIN d2 : Rd(d1, a) # Rd(d2, a)}

\* The sum of the bytes at start..end, modulo 65536, by counting: a byte of
\* value v at offset a is counted as the v pairs <<a, 1>> .. <<a, v>>.
RangeSum(d, start, end) ==
  Cardinality({p \in {a \in DOMAIN d : start <= a /\ a <= end} \X (1..255) :
                 p[2] <= d[p[1]]}) % 65536

Bank1SumValid(d) ==
  StoredLE(d, 7949) = RangeSum(d, 4617, 7554)

Bank2SumValid(d) ==
  StoredLE(d, 11625) = RangeSum(d, 8201, 11624)

\* The pocket lies inside a buffer of L bytes.
PocketIn(pocket, L) == pocket.data + 2 * pocket.max_slots <= L

CountOf(d, pocket) == Rd(d, pocket.count)
IdAt(d, pocket, i) == Rd(d, pocket.data + 2 * i)
QtyAt(d, pocket, i) == Rd(d, pocket.data + 2 * i + 1)

\* item_id is among the valid slots 0..count-1.
Holds(d, pocket, item_id) ==
  \E i \in 0..(CountOf(d, pocket) - 1) : IdAt(d, pocket, i) = item_id

FirstIndex(d, pocket, item_id) ==
  CHOOSE i \in 0..(CountOf(d, pocket) - 1) :
    /\ IdAt(d, pocket, i) = item_id
    /\ \A j \in 0..(i - 1) : IdAt(d, pocket, j) # item_id

ValidPocket(d, pocket) ==
  /\ CountOf(d, pocket) <= pocket.max_slots
  /\ \A i, j \in 0..(CountOf(d, pocket) - 1) :
       i # j => IdAt(d, pocket, i) # IdAt(d, pocket, j)

\* The two banks' copies of a pocket agree: count byte and max_slots pairs.
SamePocket(d, pocket_name) ==
  LET p1 == POCKETS_BANK1[pocket_name]
      p2 == POCKETS[pocket_name]
  IN  /\ Rd(d, p1.count) = Rd(d, p2.count)
      /\ \A k \in 0..(2 * p1.max_slots - 1) : Rd(d, p1.data + k) = Rd(d, p2.data + k)

Clamp(lo, hi, v) == IF v < lo THEN lo ELSE IF v > hi THEN hi ELSE v

LastPocket == PocketOf(last.bank, last.pocket)
LastWasSingle == last.op = "add_item_to_pocket_single"
LastWasBoth == last.op = "add_item_to_pocket"
LastRaised == IsError(last.r1) \/ IsError(last.r2)

PartyEdits ==
  {"make_pokemon_shiny", "max_pokemon_stats", "set_pokemon_level", "set_pokemon_move",
   "give_pokemon_item", "set_pokemon_species", "add_suicune"}

\* C1: once write_save has returned, the file holds, low byte first at 0x1F0D,
\* the sum of bytes 0x1209..0x1D82 modulo 65536 and, low byte first at 0x2D69,
\* the sum of bytes 0x2009..0x2D68 modulo 65536, whatever edits came before.
C1_ChecksumsValidAfterWriteSave ==
  (pc = "saved" /\ last.op = "write_save") =>
    (file = data /\ Bank1SumValid(file) /\ Bank2SumValid(file))

\* C1 witness: a write_save after edits that replaced a stale checksum in each
\* bank by a sum that needs both bytes.
C1_Witness ==
  /\ pc = "saved" /\ last.op = "write_save" /\ edits >= 1
  /\ StoredLE(file, 7949) > 255 /\ StoredLE(file, 11625) > 255
  /\ StoredLE(last.pre, 7949) # StoredLE(file, 7949)
  /\ StoredLE(last.pre, 11625) # StoredLE(file, 11625)

\* C2: whatever wrote the file (write_save of the editor or add_master_balls
\* of add_masterballs.py), both banks' checksum fields in the file equal the
\* sums of their ranges.
C2_EveryWriteUpdatesBothChecksums ==
  pc = "saved" => (Bank1SumValid(file) /\ Bank2SumValid(file))

\* C3: add_item_to_pocket with item_id and quantity in 0..255 on a pocket whose
\* two bank copies agree leaves them agreeing and reports the same result for
\* both banks.
C3_RedundantCopiesAndResultsAgree ==
  (/\ LastWasBoth
   /\ last.item_id \in 0..255 /\ last.quantity \in 0..255
   /\ PocketIn(POCKETS[last.pocket], len)
   /\ SamePocket(last.pre, last.pocket))
  => (SamePocket(data, last.pocket) /\ last.r1 = last.r2)

\* C4: add_item_to_pocket never leaves one bank changed while the other bank's
\* upsert reported "Pocket full!".
C4_AllOrNothingAcrossBanks ==
  LastWasBoth =>
    /\ ~(last.r2.kind = "Pocket full!" /\ \E a \in DiffSet(last.pre, data) : a < 8192)
    /\ ~(last.r1.kind = "Pocket full!" /\ \E a \in DiffSet(last.pre, data) : a >= 8192)

\* C5: add_item_to_pocket_single on a pocket with count = max_slots that does
\* not hold item_id among its valid slots reports "Pocket full!" and changes
\* no byte of the buffer.
C5_FullPocketIsNoOp ==
  (/\ LastWasSingle
   /\ PocketIn(LastPocket, len)
   /\ CountOf(last.pre, LastPocket) = LastPocket.max_slots
   /\ ~Holds(last.pre, LastPocket, last.item_id))
  => (last.r1.kind = "Pocket full!" /\ data = last.pre)

C5_Witness ==
  /\ LastWasSingle
  /\ PocketIn(LastPocket, len)
  /\ CountOf(last.pre, LastPocket) = LastPocket.max_slots
  /\ ~Holds(last.pre, LastPocket, last.item_id)
  /\ last.r1.kind = "Pocket full!"

\* C6: add_item_to_pocket_single of an identifier held by a valid slot changes
\* at most that slot's quantity byte (count byte, identifiers and the other
\* quantities stay), and the previous quantity it reports is the byte's value
\* before the call.
C6_UpdateOverwritesOnlyQuantity ==
  (/\ LastWasSingle
   /\ PocketIn(LastPocket, len)
   /\ Holds(last.pre, LastPocket, last.item_id))
  => LET i == FirstIndex(last.pre, LastPocket, last.item_id)
     IN  /\ DiffSet(last.pre, data) \subseteq {LastPocket.data + 2 * i + 1}
         /\ last.r1.kind \in {"Updated", "ValueError"}
         /\ last.r1.kind = "Updated" =>
              /\ last.r1.old = QtyAt(last.pre, LastPocket, i)
              /\ QtyAt(data, LastPocket, i) = last.r1.new

C6_Witness ==
  /\ LastWasSingle
  /\ Holds(last.pre, LastPocket, last.item_id)
  /\ last.r1.kind = "Updated"
  /\ last.r1.old = 99 /\ last.r1.new = 50
  /\ DiffSet(last.pre, data) # {}

\* C7: an upsert on a pocket with count <= max_slots and no duplicate
\* identifier among its valid slots leaves it so; an identifier it does not
\* hold is appended at index count and count grows by exactly 1; from count = 0,
\* upsert(0x01, 99) gives count = 1, slot0 = (0x01, 99), and upsert(0x01, 50)
\* after it gives count = 1, slot0 = (0x01, 50).
C7_PocketStaysWellFormed ==
  /\ (LastWasSingle /\ PocketIn(LastPocket, len) /\ ValidPocket(last.pre, LastPocket)) =>
       /\ ValidPocket(data, LastPocket)
       /\ last.r1.kind = "Added" =>
            /\ ~Holds(last.pre, LastPocket, last.item_id)
            /\ CountOf(data, LastPocket) = CountOf(last.pre, LastPocket) + 1
            /\ IdAt(data, LastPocket, CountOf(last.pre, LastPocket)) = last.item_id
       /\ last.r1.kind = "Updated" =>
            CountOf(data, LastPocket) = CountOf(last.pre, LastPocket)
       /\ (CountOf(last.pre, LastPocket) = 0 /\ last.item_id = 1 /\ last.quantity = 99) =>
            /\ CountOf(data, LastPocket) = 1
            /\ IdAt(data, LastPocket, 0) = 1 /\ QtyAt(data, LastPocket, 0) = 99
       /\ (/\ CountOf(last.pre, LastPocket) = 1 /\ IdAt(last.pre, LastPocket, 0) = 1
           /\ last.item_id = 1 /\ last.quantity = 50) =>
            /\ CountOf(data, LastPocket) = 1
            /\ IdAt(data, LastPocket, 0) = 1 /\ QtyAt(data, LastPocket, 0) = 50
  /\ LastWasBoth =>
       \A bank \in {1, 2} :
         (/\ PocketIn(PocketOf(bank, last.pocket), len)
          /\ ValidPocket(last.pre, PocketOf(bank, last.pocket)))
         => ValidPocket(data, PocketOf(bank, last.pocket))

\* C7 witness: the second call of the scenario, upsert(0x01, 50) on the pocket
\* that upsert(0x01, 99) made from count = 0.
C7_Witness ==
  /\ LastWasSingle /\ edits = 2
  /\ last.item_id = 1 /\ last.quantity = 50
  /\ last.r1.kind = "Updated" /\ last.r1.old = 99
  /\ CountOf(last.pre, LastPocket) = 1
  /\ CountOf(data, LastPocket) = 1
  /\ IdAt(data, LastPocket, 0) = 1 /\ QtyAt(data, LastPocket, 0) = 50
  /\ QtyAt(data, LastPocket, 1) = 0 /\ IdAt(data, LastPocket, 1) = 0

\* C8: for every integer quantity, an upsert that finds the identifier or has
\* room stores max(0, min(99, quantity)) in the slot's quantity byte.
C8_QuantityClampedBothWays ==
  (/\ LastWasSingle
   /\ PocketIn(LastPocket, len)
   /\ ValidPocket(last.pre, LastPocket)
   /\ (Holds(last.pre, LastPocket, last.item_id)
         \/ CountOf(last.pre, LastPocket) < LastPocket.max_slots))
  => /\ Holds(data, LastPocket, last.item_id)
     /\ QtyAt(data, LastPocket, FirstIndex(data, LastPocket, last.item_id))
          = Clamp(0, 99, last.quantity)

\* C9: an edit that stops with an exception leaves the buffer as it was before
\* the call.
C9_FailedEditLeavesBufferUnchanged ==
  ((LastWasSingle \/ LastWasBoth \/ last.op \in PartyEdits) /\ LastRaised)
    => data = last.pre

\* C10: a party edit called with a slot outside 1..6, or above the party count
\* byte, returns False and changes no byte of the buffer.
C10_BadSlotIsRefused ==
  (/\ last.op \in PartyEdits
   /\ \/ last.slot < 1
      \/ last.slot > 6
      \/ (PARTY_COUNT_OFFSET < len /\ last.slot > Rd(last.pre, 10341)))
  => (last.r1.kind = "False" /\ data = last.pre)

\* C10 witness: a slot within 1..6 but above the count byte was refused.
C10_Witness ==
  /\ last.op = "add_suicune"
  /\ last.slot = 3 /\ Rd(last.pre, 10341) = 2
  /\ last.r1.kind = "False" /\ data = last.pre

\* The species byte of record slot and the species-list byte of that slot.
RecordSpecies(d, slot) == Rd(d, 10349 + (slot - 1) * 48)
ListSpecies(d, slot) == Rd(d, 10342 + slot - 1)

\* For every slot in 1..count the species list and the record agree.
LockStep(d) ==
  \A i \in 1..Rd(d, 10341) : ListSpecies(d, i) = RecordSpecies(d, i)

\* C11: a party whose species-list bytes agree with the records' species bytes
\* for every slot in 1..count still does after any edit; set_pokemon_species
\* and add_suicune that succeed leave the species id they were given (245 for
\* add_suicune) in both the record byte and the species-list byte slot-1.
C11_SpeciesLockStep ==
  /\ (last.op # "read_save" /\ LockStep(last.pre)) => LockStep(data)
  /\ (last.op = "set_pokemon_species" /\ last.r1.kind = "True") =>
       (ListSpecies(data, last.slot) = last.x /\ RecordSpecies(data, last.slot) = last.x)
  /\ (last.op = "add_suicune" /\ last.r1.kind = "True") =>
       (ListSpecies(data, last.slot) = 245 /\ RecordSpecies(data, last.slot) = 245)

\* C11 witness: set_pokemon_species changed both bytes of slot 1 of a party in
\* lock-step.
C11_Witness ==
  /\ last.op = "set_pokemon_species" /\ last.r1.kind = "True" /\ last.slot = 1
  /\ Rd(last.pre, 10341) = 2 /\ LockStep(last.pre)
  /\ ListSpecies(last.pre, 1) = 25 /\ RecordSpecies(last.pre, 1) = 25
  /\ ListSpecies(data, 1) = 151 /\ RecordSpecies(data, 1) = 151

\* The level byte of record slot.
RecordLevel(d, slot) == Rd(d, 10349 + (slot - 1) * 48 + 31)

\* C12: after set_pokemon_level(slot, L) that succeeded, and after
\* set_pokemon_species(slot, id, L) that succeeded with a level L given, the
\* level byte of the record is L clamped to [1,100], for every integer L,
\* 0 included.
C12_LevelClamped ==
  /\ (last.op = "set_pokemon_level" /\ last.r1.kind = "True") =>
       RecordLevel(data, last.slot) = Clamp(1, 100, last.level[1])
  /\ (last.op = "set_pokemon_species" /\ last.r1.kind = "True" /\ last.level # <<>>) =>
       RecordLevel(data, last.slot) = Clamp(1, 100, last.level[1])

\* C13: each byte an edit changed at a bank-2 address (0x2000 and up) has the
\* same value at the bank-1 address 0x0E00 below it.
C13_EditsReachBothBanks ==
  last.op # "read_save" =>
    \A a \in DiffSet(last.pre, data) :
      a >= 8192 => Rd(data, a) = Rd(data, a - 3584)

\* C14: update_checksum applied again right after write_save applied it
\* changes no byte; and when an edit changed bank-1 bytes only (addresses below
\* 0x2000), update_checksum computes the same bank-2 checksum field for the
\* buffer after the edit as for the buffer before it.
C14_UpdateChecksumIdempotent ==
  /\ last.op = "write_save" => update_checksum(data, len).d = data
  /\ (last.op \notin {"read_save", "write_save"}
        /\ \A a \in DiffSet(last.pre, data) : a < 8192) =>
       StoredLE(update_checksum(data, len).d, 11625)
         = StoredLE(update_checksum(last.pre, len).d, 11625)

\* C14 witness: write_save rewrote both checksum fields, after an edit that
\* had changed bytes of both banks.
C14_Witness ==
  /\ last.op = "write_save" /\ pc = "saved"
  /\ StoredLE(data, 7949) # StoredLE(last.pre, 7949)
  /\ StoredLE(data, 11625) # StoredLE(last.pre, 11625)
  /\ StoredLE(data, 11625) % 256 # 0
  /\ update_checksum(data, len).d = data

\* C14, second witness state: an edit changed bank-1 bytes only.
C14_WitnessBank1Only ==
  /\ last.op = "--masterballs" /\ pc = "editing" /\ len = 32768
  /\ DiffSet(last.pre, data) # {}
  /\ \A a \in DiffSet(last.pre, data) : a < 8192

\* C15: for every v in 0..999999, bcd_to_int of the 3 bytes int_to_bcd(v, 3)
\* returned is v, on the bytes themselves and on the bytes read back from the
\* buffer they were stored in.
C15_BcdRoundTrip ==
  (last.op = "int_to_bcd" /\ last.quantity = 3 /\ last.x \in 0..999999) =>
    /\ Len(last.level) = 3
    /\ bcd_to_int(last.level) = last.x
    /\ last.r1.kind = "ok" /\ last.r1.new = last.x

\* C15 witness: 123456 went to the bytes 0x12 0x34 0x56 and back.
C15_Witness ==
  /\ last.op = "int_to_bcd" /\ last.quantity = 3 /\ last.x = 123456
  /\ last.level = <<18, 52, 86>>
  /\ Rd(data, 9180) = 18 /\ Rd(data, 9181) = 52 /\ Rd(data, 9182) = 86
  /\ last.r1.new = 123456

\* The largest value `length` BCD bytes hold: 10^(2*length) - 1.
MaxBcd(length) == CASE length = 1 -> 99 [] length = 2 -> 9999 [] length = 3 -> 999999

\* C16: int_to_bcd(value, length) for a value above 10^(2*length) - 1 fails
\* or returns `length` bytes 0x99.
C16_BcdOutOfDomainSaturates ==
  (last.op = "int_to_bcd" /\ last.x > MaxBcd(last.quantity)) =>
    \/ last.r1.kind # "ok"
    \/ \A i \in 1..Len(last.level) : last.level[i] = 153

\* C17: for every (atk, def, spd, spc) in 0..15, set_dvs stores
\* (atk<<12)|(def<<8)|(spd<<4)|spc high byte first, and get_dvs at the same
\* offset returns atk, def, spd, spc.
C17_DvRoundTrip ==
  last.op = "set_dvs" =>
    LET t == last.level
    IN  /\ last.r1.kind = "ok"
        /\ Rd(data, last.x) = t[1] * 16 + t[2]
        /\ Rd(data, last.x + 1) = t[3] * 16 + t[4]
        /\ Rd(data, last.x) * 256 + Rd(data, last.x + 1)
             = t[1] * 4096 + t[2] * 256 + t[3] * 16 + t[4]
        /\ get_dvs(data, last.x) = [atk |-> t[1], def |-> t[2], spd |-> t[3], spc |-> t[4]]
        /\ DiffSet(last.pre, data) \subseteq {last.x, last.x + 1}

\* C17 witness: (1, 2, 3, 4) was stored as 0x12 0x34 over other bytes.
C17_Witness ==
  /\ last.op = "set_dvs" /\ last.level = <<1, 2, 3, 4>>
  /\ Rd(data, last.x) = 18 /\ Rd(data, last.x + 1) = 52
  /\ Rd(last.pre, last.x) = 85 /\ Rd(last.pre, last.x + 1) = 85
  /\ get_dvs(data, last.x).atk = 1 /\ get_dvs(data, last.x).spc = 4

\* The shiny condition on a tuple <<atk, def, spd, spc>>.
ShinyTuple(t) ==
  t[3] = 10 /\ t[2] = 10 /\ t[4] = 10 /\ t[1] \in {2, 3, 6, 7, 10, 11, 14, 15}

\* The DV bytes of record slot.
RecordDvs(d, slot) == get_dvs(d, 10349 + (slot - 1) * 48 + 21)

\* C18: for every tuple in 0..15, is_shiny is true exactly when spd = def =
\* spc = 10 and atk is one of 2, 3, 6, 7, 10, 11, 14, 15; the tuple
\* make_pokemon_shiny writes is (15, 10, 10, 10) and is shiny, the tuple
\* max_pokemon_stats writes is (15, 15, 15, 15) and is not.
C18_IsShinyPredicate ==
  /\ last.op = "set_dvs" =>
       LET t == last.level
       IN  /\ is_shiny([atk |-> t[1], def |-> t[2], spd |-> t[3], spc |-> t[4]]) <=> ShinyTuple(t)
           /\ is_shiny(get_dvs(data, last.x)) <=> ShinyTuple(t)
  /\ (last.op = "make_pokemon_shiny" /\ last.r1.kind = "True") =>
       /\ RecordDvs(data, last.slot) = [atk |-> 15, def |-> 10, spd |-> 10, spc |-> 10]
       /\ is_shiny(RecordDvs(data, last.slot))
  /\ (last.op = "max_pokemon_stats" /\ last.r1.kind = "True") =>
       /\ RecordDvs(data, last.slot) = [atk |-> 15, def |-> 15, spd |-> 15, spc |-> 15]
       /\ ~is_shiny(RecordDvs(data, last.slot))

\* C18 witness: a tuple that meets the condition with atk other than 15.
C18_Witness ==
  /\ last.op = "set_dvs" /\ last.level = <<6, 10, 10, 10>>
  /\ is_shiny(get_dvs(data, last.x))
  /\ ~is_shiny(get_dvs(last.pre, last.x))

\* C19: replacing one byte inside a summed range by a different value changes
\* what calculate_checksum returns for that range; over bytes that did not
\* change it returns the same value again.
C19_ChecksumSensitive ==
  last.op = "calculate_checksum" =>
    LET a == last.x
        in1 == 4617 <= a /\ a <= 7554
        in2 == 8201 <= a /\ a <= 11624
    IN  /\ in1 \/ in2
        /\ Rd(data, a) # Rd(last.pre, a) /\ DiffSet(last.pre, data) = {a}
        /\ last.r1.old # last.r1.new
        /\ in1 => /\ calculate_checksum(last.pre, 4617, 7554) = last.r1.old
                  /\ calculate_checksum(data, 4617, 7554) = last.r1.new
                  /\ calculate_checksum(data, 8201, 11624)
                       = calculate_checksum(last.pre, 8201, 11624)
        /\ in2 => /\ calculate_checksum(last.pre, 8201, 11624) = last.r1.old
                  /\ calculate_checksum(data, 8201, 11624) = last.r1.new
                  /\ calculate_checksum(data, 4617, 7554)
                       = calculate_checksum(last.pre, 4617, 7554)

\* C19 witness: the last byte of the bank-2 range went from 0 to 255.
C19_Witness ==
  /\ last.op = "calculate_checksum" /\ last.x = 11624 /\ last.quantity = 255
  /\ Rd(last.pre, 11624) = 0 /\ Rd(data, 11624) = 255
  /\ last.r1.new = (last.r1.old + 255) % 65536
  /\ last.r1.old > 255

\* C20: when main has handled --shiny N and next handles --maxstats N for the
\* same slot N of the party, the Pokemon in slot N is shiny in the buffer
\* that results, which is the buffer write_save then writes.
C20_ShinyThenMaxstatsStaysShiny ==
  [][ (/\ last.op = "--shiny" /\ last.x = 0
       /\ last'.op = "--maxstats" /\ last'.x = 0
       /\ last'.slot = last.slot
       /\ last.slot \in 1..6 /\ last.slot <= Rd(data, 10341)
       /\ last'.r1.kind = "True")
      => is_shiny(RecordDvs(data', last.slot)) ]_vars

\* The bytes of a pocket: its count byte and its max_slots slot pairs.
PocketArea(pocket) ==
  {pocket.count} \cup (pocket.data..(pocket.data + 2 * pocket.max_slots - 1))

\* The bytes of the party a party edit may write: the 6 species-list bytes
\* and the 6 records of 48 bytes.
PartyArea == (10342..10347) \cup (10349..(10349 + 6 * 48 - 1))

\* C21: whatever the count bytes hold, a pocket upsert changes bytes of that
\* pocket only (count byte and max_slots slot pairs, in each bank it is applied
\* to), and a party edit changes bytes of the species list and of the 6
\* records only.
C21_WritesConfined ==
  /\ LastWasSingle => DiffSet(last.pre, data) \subseteq PocketArea(LastPocket)
  /\ LastWasBoth =>
       DiffSet(last.pre, data) \subseteq
         (PocketArea(POCKETS_BANK1[last.pocket]) \cup PocketArea(POCKETS[last.pocket]))
  /\ last.op \in (PartyEdits \cup {"heal_all_pokemon"}) =>
       DiffSet(last.pre, data) \subseteq PartyArea

\* Every count byte is within its table: pocket counts <= max_slots in both
\* banks, party count <= 6.
ValidCounts(d) ==
  /\ \A n \in PocketNames :
       /\ Rd(d, POCKETS_BANK1[n].count) <= POCKETS_BANK1[n].max_slots
       /\ Rd(d, POCKETS[n].count) <= POCKETS[n].max_slots
  /\ Rd(d, 10341) <= 6

InBank1Range(a) == 4617 <= a /\ a <= 7554
InBank2Range(a) == 8201 <= a /\ a <= 11624

PocketFlags == {"--masterballs", "--rarecandy", "--allballs", "--healing", "--stats"}
Bank2Flags == {"--money", "--shiny", "--maxstats", "--level", "--heal", "--suicune"}

\* C22: on a buffer with valid count bytes, every byte an edit of main changes
\* lies in the summed range of its bank: pocket edits in 0x1209..0x1D82 (the
\* bank-1 copy) or 0x2009..0x2D68 (the bank-2 copy), money and party edits in
\* 0x2009..0x2D68; none is a byte of a checksum field.
C22_EditsInsideSummedRanges ==
  ValidCounts(last.pre) =>
    /\ last.op \in (PocketFlags \cup {"--all-items"}) =>
         \A a \in DiffSet(last.pre, data) :
           IF a < 8192 THEN InBank1Range(a) ELSE InBank2Range(a)
    /\ last.op \in Bank2Flags =>
         \A a \in DiffSet(last.pre, data) : InBank2Range(a)
    /\ last.op \in (PocketFlags \cup Bank2Flags \cup {"--all-items"}) =>
         DiffSet(last.pre, data) \cap {7949, 7950, 11625, 11626} = {}

\* C22 witness: --all-items changed pocket bytes of both banks and the money
\* bytes of a buffer with valid counts.
C22_Witness ==
  /\ last.op = "--all-items" /\ pc = "editing" /\ len = 32768
  /\ ValidCounts(last.pre)
  /\ \E a \in DiffSet(last.pre, data) : InBank1Range(a)
  /\ 9180 \in DiffSet(last.pre, data)
  /\ Rd(data, 9180) = 153

====
